---- MODULE Spec2Model ----
\* Model of app.py, the weather-brief command line tool: one process run of
\* get_weather_brief(args.icao).  A Python str is a sequence of one-character
\* strings, so that str.strip(), the `in` substring test, re.match and
\* "\n".join() are computed the way the interpreter computes them.
EXTENDS Integers, Sequences, FiniteSets, TLC

\* ------------------------------------------------------ string literals
\* "Invalid ICAO code."
InvalidIcaoMsg ==
    <<"I", "n", "v", "a", "l", "i", "d", " ", "I", "C", "A", "O", " ", "c",
      "o", "d", "e", ".">>

\* "METAR data not available (empty response)."
MetarEmptyMsg ==
    <<"M", "E", "T", "A", "R", " ", "d", "a", "t", "a", " ", "n", "o", "t",
      " ", "a", "v", "a", "i", "l", "a", "b", "l", "e", " ", "(", "e", "m",
      "p", "t", "y", " ", "r", "e", "s", "p", "o", "n", "s", "e", ")", ".">>

\* "METAR data not available (network error)."
MetarNetworkMsg ==
    <<"M", "E", "T", "A", "R", " ", "d", "a", "t", "a", " ", "n", "o", "t",
      " ", "a", "v", "a", "i", "l", "a", "b", "l", "e", " ", "(", "n", "e",
      "t", "w", "o", "r", "k", " ", "e", "r", "r", "o", "r", ")", ".">>

\* "METAR data not available."
MetarUnavailablePrefix ==
    <<"M", "E", "T", "A", "R", " ", "d", "a", "t", "a", " ", "n", "o", "t",
      " ", "a", "v", "a", "i", "l", "a", "b", "l", "e", ".">>

\* "Error decoding METAR."
DecodeErrorMsg ==
    <<"E", "r", "r", "o", "r", " ", "d", "e", "c", "o", "d", "i", "n", "g",
      " ", "M", "E", "T", "A", "R", ".">>

\* "TAF data not available."
TafUnavailableMsg ==
    <<"T", "A", "F", " ", "d", "a", "t", "a", " ", "n", "o", "t", " ", "a",
      "v", "a", "i", "l", "a", "b", "l", "e", ".">>

\* An empty-response text that repeats the generic one.
TafEmptyMsg_generic == TafUnavailableMsg

\* "TAF data not available (empty response)."
TafEmptyMsg ==
    <<"T", "A", "F", " ", "d", "a", "t", "a", " ", "n", "o", "t", " ", "a",
      "v", "a", "i", "l", "a", "b", "l", "e", " ", "(", "e", "m", "p", "t",
      "y", " ", "r", "e", "s", "p", "o", "n", "s", "e", ")", ".">>

\* "Weather Brief for "
BriefHeader ==
    <<"W", "e", "a", "t", "h", "e", "r", " ", "B", "r", "i", "e", "f", " ",
      "f", "o", "r", " ">>

\* ------------------------------------------- inputs the environment supplies
\* "KJFK 211951Z"
RawMetar ==
    <<"K", "J", "F", "K", " ", "2", "1", "1", "9", "5", "1", "Z">>

\* " KJFK 211951Z\n"
PaddedMetar ==
    <<" ", "K", "J", "F", "K", " ", "2", "1", "1", "9", "5", "1", "Z", "\n">>

\* "station: KJFK"
MetarReport ==
    <<"s", "t", "a", "t", "i", "o", "n", ":", " ", "K", "J", "F", "K">>

\* "<r/>"
XmlNoTaf ==
    <<"<", "r", "/", ">">>

\* "<r"
XmlMalformed ==
    <<"<", "r">>

\* "<r><TAF><text/></TAF></r>"
XmlEmptyText ==
    <<"<", "r", ">", "<", "T", "A", "F", ">", "<", "t", "e", "x", "t", "/",
      ">", "<", "/", "T", "A", "F", ">", "<", "/", "r", ">">>

\* "<r><TAF><text>TAF A</text></TAF></r>"
XmlOneTaf ==
    <<"<", "r", ">", "<", "T", "A", "F", ">", "<", "t", "e", "x", "t", ">",
      "T", "A", "F", " ", "A", "<", "/", "t", "e", "x", "t", ">", "<", "/",
      "T", "A", "F", ">", "<", "/", "r", ">">>

\* "<r><TAF><text>TAF A</text></TAF><TAF><text>TAF B</text></TAF></r>"
XmlTwoTafs ==
    <<"<", "r", ">", "<", "T", "A", "F", ">", "<", "t", "e", "x", "t", ">",
      "T", "A", "F", " ", "A", "<", "/", "t", "e", "x", "t", ">", "<", "/",
      "T", "A", "F", ">", "<", "T", "A", "F", ">", "<", "t", "e", "x", "t",
      ">", "T", "A", "F", " ", "B", "<", "/", "t", "e", "x", "t", ">", "<",
      "/", "T", "A", "F", ">", "<", "/", "r", ">">>

\* "TAF A"
TafA ==
    <<"T", "A", "F", " ", "A">>

\* "TAF B"
TafB ==
    <<"T", "A", "F", " ", "B">>

\* "https://h"
HookUrl ==
    <<"h", "t", "t", "p", "s", ":", "/", "/", "h">>

\* Command-line arguments tried: a valid code, lowercase, too short, too long,
\* with a digit, empty, and four capitals followed by a newline.
IcaoArgs ==
    { <<"K", "J", "F", "K">>, <<"k", "j", "f", "k">>, <<"K", "J", "F">>,
      <<"K", "J", "F", "K", "X">>, <<"K", "J", "1", "K">>, <<>>,
      <<"K", "J", "F", "K", "\n">> }

\* os.getenv("SLACK_WEBHOOK_URL"): None when unset, otherwise a str.
WebhookValues ==
    { [isNone |-> TRUE, value |-> <<>>],
      [isNone |-> FALSE, value |-> <<>>],
      [isNone |-> FALSE, value |-> HookUrl] }

\* Status codes a requests.Response can carry back to the caller.
StatusCodes == {200, 304, 404, 500}

\* Exceptions requests raises instead of returning a Response.
TransportErrors == {"Timeout", "ConnectionError"}

\* What one requests.get / requests.post call produces.
HttpOutcome(bodies) ==
    [exc : {"none"}, status : StatusCodes, text : bodies]
    \cup [exc : TransportErrors, status : {0}, text : {<<>>}]

MetarBodies == { <<>>, <<" ">>, <<"\n">>, RawMetar, PaddedMetar, <<"?">> }

TafBodies ==
    { <<>>, <<" ", "\n">>, XmlMalformed, XmlNoTaf, XmlEmptyText, XmlOneTaf,
      XmlTwoTafs }

MetarResponses == HttpOutcome(MetarBodies)

TafResponses == HttpOutcome(TafBodies)

PostResponses == HttpOutcome({<<>>})

\* No request was sent.
NoResponse == [exc |-> "unsent", status |-> 0, text |-> <<>>]

\* A variable of get_weather_brief that is not bound yet.
Unbound == <<"<unbound>">>

\* ------------------------------------------------------ library functions
\* Characters str.strip() removes.
Whitespace == {" ", "\n", "\t", "\r"}

RECURSIVE LStrip(_)
LStrip(s) ==
    IF s = <<>> THEN s
    ELSE IF Head(s) \in Whitespace THEN LStrip(Tail(s)) ELSE s

RECURSIVE RStrip(_)
RStrip(s) ==
    IF s = <<>> THEN s
    ELSE IF s[Len(s)] \in Whitespace THEN RStrip(SubSeq(s, 1, Len(s) - 1))
    ELSE s

\* A strip that forgets to strip.
strip_identity(s) == s

\* str.strip()
strip(s) == RStrip(LStrip(s))

\* Python's `needle in hay` for strings.
Contains(needle, hay) ==
    \E i \in 1..(Len(hay) - Len(needle) + 1) :
        SubSeq(hay, i, i + Len(needle) - 1) = needle

LowerLetters ==
    <<"a", "b", "c", "d", "e", "f", "g", "h", "i", "j", "k", "l", "m",
      "n", "o", "p", "q", "r", "s", "t", "u", "v", "w", "x", "y", "z">>

UpperLetters ==
    <<"A", "B", "C", "D", "E", "F", "G", "H", "I", "J", "K", "L", "M",
      "N", "O", "P", "Q", "R", "S", "T", "U", "V", "W", "X", "Y", "Z">>

AsciiUpper == { UpperLetters[i] : i \in 1..26 }

UpperChar(c) ==
    IF \E i \in 1..26 : LowerLetters[i] = c
    THEN UpperLetters[CHOOSE i \in 1..26 : LowerLetters[i] = c]
    ELSE c

\* str.upper()
upper(s) == [i \in 1..Len(s) |-> UpperChar(s[i])]

\* "sep".join(parts); parts are all str.
RECURSIVE Join(_, _)
Join(sep, parts) ==
    IF parts = <<>> THEN <<>>
    ELSE IF Len(parts) = 1 THEN parts[1]
    ELSE parts[1] \o sep \o Join(sep, Tail(parts))

\* Response.raise_for_status(): TRUE when it raises HTTPError (4xx or 5xx).
raise_for_status(status) == status >= 400 /\ status < 600

\* An Element.text that is None (an element without character data).
NoneText == [isNone |-> TRUE, text |-> <<>>]

StrText(s) == [isNone |-> FALSE, text |-> s]

\* ET.fromstring(text) followed by root.findall(".//TAF/text"), on the bodies
\* the model supplies: ok is FALSE when fromstring raises ParseError, found
\* lists the .text of the matching elements.
ET_fromstring(text) ==
    CASE text = XmlNoTaf -> [ok |-> TRUE, found |-> <<>>]
      [] text = XmlEmptyText -> [ok |-> TRUE, found |-> <<NoneText>>]
      [] text = XmlOneTaf -> [ok |-> TRUE, found |-> <<StrText(TafA)>>]
      [] text = XmlTwoTafs ->
            [ok |-> TRUE, found |-> <<StrText(TafA), StrText(TafB)>>]
      [] OTHER -> [ok |-> FALSE, found |-> <<>>]

\* Metar(metar).string() of the python-metar package on the texts the model
\* supplies: the parser is strict, so any group it cannot parse raises
\* ParserError; ok is FALSE when it raises.
Metar_string(m) ==
    IF m = RawMetar THEN [ok |-> TRUE, text |-> MetarReport]
    ELSE [ok |-> FALSE, text |-> <<>>]

\* ------------------------------------------------------------ the program
VARIABLES
    pc,                 \* the statement of the script that runs next
    icao,               \* args.icao
    SLACK_WEBHOOK_URL,  \* module global read from the environment
    metar,              \* local of get_weather_brief
    taf,                \* local of get_weather_brief
    decoded_metar,      \* local of get_weather_brief
    stdout,             \* what print() wrote
    gets,               \* requests.get calls issued, in order
    posts,              \* JSON payloads handed to requests.post, in order
    logs,               \* logging records emitted, in order
    exception,          \* exception propagating out of get_weather_brief
    exitStatus,         \* process exit status, -1 while running
    stages,             \* calls get_weather_brief has made, in order
    metarResp,          \* what the METAR GET produced
    tafResp,            \* what the TAF GET produced
    postResp,           \* what the webhook POST produced
    metarParsed         \* whether Metar(metar) was constructed

vars ==
    <<pc, icao, SLACK_WEBHOOK_URL, metar, taf, decoded_metar, stdout, gets,
      posts, logs, exception, exitStatus, stages, metarResp, tafResp,
      postResp, metarParsed>>

Log(level, by) == [level |-> level, by |-> by]

\* re.match(r"^[A-Z]{4}$", icao): `$` also matches just before a newline
\* that ends the string.
is_valid_icao(s) ==
    /\ Len(s) \in {4, 5}
    /\ \A i \in 1..4 : s[i] \in AsciiUpper
    /\ Len(s) = 5 => s[5] = "\n"

\* get_metar(icao), given what requests.get produces if it is called.
get_metar(code, resp) ==
    IF ~is_valid_icao(code)
    THEN [ret |-> InvalidIcaoMsg, gets |-> <<>>, logs |-> <<>>]
    ELSE IF resp.exc # "none" \/ raise_for_status(resp.status)
    THEN [ret |-> MetarNetworkMsg, gets |-> <<"metar">>,
          logs |-> <<Log("ERROR", "get_metar")>>]
    ELSE IF strip(resp.text) # <<>>
    THEN [ret |-> strip(resp.text), gets |-> <<"metar">>, logs |-> <<>>]
    ELSE [ret |-> MetarEmptyMsg, gets |-> <<"metar">>, logs |-> <<>>]

\* decode_metar(metar)
decode_metar(m) ==
    IF Contains(MetarUnavailablePrefix, m) \/ Contains(InvalidIcaoMsg, m)
    THEN [ret |-> m, parsed |-> FALSE, logs |-> <<>>]
    ELSE LET parsed_metar == Metar_string(m)
         IN  IF parsed_metar.ok
             THEN [ret |-> parsed_metar.text, parsed |-> TRUE,
                   logs |-> <<>>]
             ELSE [ret |-> DecodeErrorMsg, parsed |-> TRUE,
                   logs |-> <<Log("ERROR", "decode_metar")>>]

\* The try body of get_taf: the value returned, or the exception raised.
get_taf_try(resp) ==
    IF resp.exc # "none" \/ raise_for_status(resp.status)
    THEN [exc |-> "RequestException", ret |-> Unbound]
    ELSE IF strip(resp.text) = <<>>
    THEN [exc |-> "none", ret |-> TafEmptyMsg]
    ELSE LET doc == ET_fromstring(resp.text)
             taf_texts == doc.found
         IN  IF ~doc.ok THEN [exc |-> "ParseError", ret |-> Unbound]
             ELSE IF taf_texts = <<>>
             THEN [exc |-> "none", ret |-> TafUnavailableMsg]
             ELSE IF \E i \in 1..Len(taf_texts) : taf_texts[i].isNone
             THEN [exc |-> "TypeError", ret |-> Unbound]
             ELSE [exc |-> "none",
                   ret |-> Join(<<"\n">>,
                                [i \in 1..Len(taf_texts) |->
                                    taf_texts[i].text])]

\* An except clause that names only the request failure.
get_taf_except_request_only == {"RequestException"}

\* The exceptions the except clause of get_taf names.
get_taf_except == {"RequestException", "ParseError"}

\* get_taf(icao), given what requests.get produces if it is called.
get_taf(code, resp) ==
    IF ~is_valid_icao(code)
    THEN [ret |-> InvalidIcaoMsg, exc |-> "none", gets |-> <<>>,
          logs |-> <<>>]
    ELSE LET body == get_taf_try(resp)
         IN  IF body.exc \in get_taf_except
             THEN [ret |-> TafUnavailableMsg, exc |-> "none",
                   gets |-> <<"taf">>,
                   logs |-> <<Log("ERROR", "get_taf")>>]
             ELSE [ret |-> body.ret, exc |-> body.exc, gets |-> <<"taf">>,
                   logs |-> <<>>]

\* A test for the webhook that only asks whether the variable is set.
is_not_none(url) == ~url.isNone

\* Truth value of SLACK_WEBHOOK_URL in `if SLACK_WEBHOOK_URL:`.
truthy(url) == ~url.isNone /\ url.value # <<>>

\* The payload send_to_slack builds.
payload(message, code) ==
    [text |-> <<BriefHeader \o upper(code), message.metar, message.taf,
                message.decoded_metar>>,
     pretext |-> BriefHeader \o upper(code),
     fields |-> <<[title |-> "METAR", value |-> message.metar],
                  [title |-> "TAF", value |-> message.taf],
                  [title |-> "Decoded METAR",
                   value |-> message.decoded_metar]>>]

\* send_to_slack(message, icao), given what requests.post produces if it is
\* called.
send_to_slack(message, code, url, resp) ==
    IF truthy(url)
    THEN [posts |-> <<payload(message, code)>>,
          logs |-> IF resp.exc # "none" \/ raise_for_status(resp.status)
                   THEN <<Log("ERROR", "send_to_slack")>>
                   ELSE <<Log("INFO", "send_to_slack")>>]
    ELSE [posts |-> <<>>, logs |-> <<Log("ERROR", "send_to_slack")>>]

\* A body of get_weather_brief that fetches the TAF before the METAR.
get_weather_brief_taf_first ==
    <<"get_taf", "get_metar", "decode_metar", "print", "send_to_slack">>

\* The calls of get_weather_brief, in program order.
get_weather_brief ==
    <<"get_metar", "get_taf", "decode_metar", "print", "send_to_slack">>

\* The statement after a call of get_weather_brief.
After(stage) ==
    LET i == CHOOSE k \in 1..Len(get_weather_brief) :
                 get_weather_brief[k] = stage
    IN  IF i < Len(get_weather_brief) THEN get_weather_brief[i + 1]
        ELSE "return"

Init ==
    /\ pc = "main"
    /\ icao \in IcaoArgs
    /\ SLACK_WEBHOOK_URL \in WebhookValues
    /\ metar = Unbound
    /\ taf = Unbound
    /\ decoded_metar = Unbound
    /\ stdout = <<>>
    /\ gets = <<>>
    /\ posts = <<>>
    /\ logs = <<>>
    /\ exception = "none"
    /\ exitStatus = -1
    /\ stages = <<>>
    /\ metarResp = NoResponse
    /\ tafResp = NoResponse
    /\ postResp = NoResponse
    /\ metarParsed = FALSE

\* __main__: parse the argument, enter get_weather_brief, log the banner.
Main ==
    /\ pc = "main"
    /\ pc' = get_weather_brief[1]
    /\ logs' = Append(logs, Log("INFO", "get_weather_brief"))
    /\ UNCHANGED <<icao, SLACK_WEBHOOK_URL, metar, taf, decoded_metar,
                   stdout, gets, posts, exception, exitStatus, stages,
                   metarResp, tafResp, postResp, metarParsed>>

\* metar = get_metar(icao)
GetMetar ==
    /\ pc = "get_metar"
    /\ \E resp \in MetarResponses :
         LET r == get_metar(icao, resp)
         IN  /\ metar' = r.ret
             /\ gets' = gets \o r.gets
             /\ logs' = logs \o r.logs
             /\ metarResp' = IF r.gets = <<>> THEN NoResponse ELSE resp
    /\ stages' = Append(stages, "get_metar")
    /\ pc' = After("get_metar")
    /\ UNCHANGED <<icao, SLACK_WEBHOOK_URL, taf, decoded_metar, stdout,
                   posts, exception, exitStatus, tafResp, postResp,
                   metarParsed>>

\* taf = get_taf(icao)
GetTaf ==
    /\ pc = "get_taf"
    /\ \E resp \in TafResponses :
         LET r == get_taf(icao, resp)
         IN  /\ taf' = r.ret
             /\ gets' = gets \o r.gets
             /\ logs' = logs \o r.logs
             /\ tafResp' = IF r.gets = <<>> THEN NoResponse ELSE resp
             /\ exception' = r.exc
             /\ pc' = IF r.exc = "none" THEN After("get_taf") ELSE "raised"
    /\ stages' = Append(stages, "get_taf")
    /\ UNCHANGED <<icao, SLACK_WEBHOOK_URL, metar, decoded_metar, stdout,
                   posts, exitStatus, metarResp, postResp, metarParsed>>

\* decoded_metar = decode_metar(metar)
DecodeMetar ==
    /\ pc = "decode_metar"
    /\ LET r == decode_metar(metar)
       IN  /\ decoded_metar' = r.ret
           /\ metarParsed' = r.parsed
           /\ logs' = logs \o r.logs
    /\ stages' = Append(stages, "decode_metar")
    /\ pc' = After("decode_metar")
    /\ UNCHANGED <<icao, SLACK_WEBHOOK_URL, metar, taf, stdout, gets, posts,
                   exception, exitStatus, metarResp, tafResp, postResp>>

\* The four print() calls.
PrintBrief ==
    /\ pc = "print"
    /\ stdout' = <<BriefHeader \o upper(icao), metar, taf, decoded_metar>>
    /\ stages' = Append(stages, "print")
    /\ pc' = After("print")
    /\ UNCHANGED <<icao, SLACK_WEBHOOK_URL, metar, taf, decoded_metar, gets,
                   posts, logs, exception, exitStatus, metarResp, tafResp,
                   postResp, metarParsed>>

\* send_to_slack(message, icao)
SendToSlack ==
    /\ pc = "send_to_slack"
    /\ \E resp \in PostResponses :
         LET message == [metar |-> metar, taf |-> taf,
                         decoded_metar |-> decoded_metar]
             r == send_to_slack(message, icao, SLACK_WEBHOOK_URL, resp)
         IN  /\ posts' = posts \o r.posts
             /\ logs' = logs \o r.logs
             /\ postResp' = IF r.posts = <<>> THEN NoResponse ELSE resp
    /\ stages' = Append(stages, "send_to_slack")
    /\ pc' = After("send_to_slack")
    /\ UNCHANGED <<icao, SLACK_WEBHOOK_URL, metar, taf, decoded_metar,
                   stdout, gets, exception, exitStatus, metarResp, tafResp,
                   metarParsed>>

\* get_weather_brief returns and the interpreter exits normally.
Return ==
    /\ pc = "return"
    /\ pc' = "exited"
    /\ exitStatus' = 0
    /\ UNCHANGED <<icao, SLACK_WEBHOOK_URL, metar, taf, decoded_metar,
                   stdout, gets, posts, logs, exception, stages, metarResp,
                   tafResp, postResp, metarParsed>>

\* An exception nothing caught reaches the top level: traceback, status 1.
Uncaught ==
    /\ pc = "raised"
    /\ pc' = "exited"
    /\ exitStatus' = 1
    /\ UNCHANGED <<icao, SLACK_WEBHOOK_URL, metar, taf, decoded_metar,
                   stdout, gets, posts, logs, exception, stages, metarResp,
                   tafResp, postResp, metarParsed>>

Next ==
    \/ Main
    \/ GetMetar
    \/ GetTaf
    \/ DecodeMetar
    \/ PrintBrief
    \/ SendToSlack
    \/ Return
    \/ Uncaught

Spec == Init /\ [][Next]_vars

\* ------------------------------------------------------------ properties
\* The stage has been called in this run.
Done(stage) == \E i \in 1..Len(stages) : stages[i] = stage

\* Exactly four characters, each one of A-Z.
FourUpper(s) == Len(s) = 4 /\ \A i \in 1..4 : s[i] \in AsciiUpper

\* Empty or made of whitespace only.
Blank(s) == \A i \in 1..Len(s) : s[i] \in Whitespace

\* m is body without its leading and trailing whitespace.
IsTrimOf(m, body) ==
    /\ m # <<>>
    /\ m[1] \notin Whitespace
    /\ m[Len(m)] \notin Whitespace
    /\ \E i \in 1..Len(body) :
         /\ i + Len(m) - 1 <= Len(body)
         /\ SubSeq(body, i, i + Len(m) - 1) = m
         /\ Blank(SubSeq(body, 1, i - 1))
         /\ Blank(SubSeq(body, i + Len(m), Len(body)))

IsPrefix(s, t) == Len(s) <= Len(t) /\ s = SubSeq(t, 1, Len(s))

\* Levels of the records a function logged, in order.
LevelsBy(by) ==
    LET mine == SelectSeq(logs, LAMBDA r : r.by = by)
    IN  [i \in 1..Len(mine) |-> mine[i].level]

\* The response carries a status and the status is 2xx.
Is2xx(resp) == resp.exc = "none" /\ resp.status >= 200 /\ resp.status <= 299

\* The response carries a status and the status is neither 4xx nor 5xx.
NotErrorStatus(resp) ==
    resp.exc = "none" /\ ~(resp.status >= 400 /\ resp.status <= 599)

MetarPlaceholders == {InvalidIcaoMsg, MetarEmptyMsg, MetarNetworkMsg}

\* C1: for each placeholder get_metar can return, decode_metar returns that
\* same string, constructs no Metar and does not return the decoding-error
\* text.
C1_DecoderPassthrough ==
    (Done("decode_metar") /\ metar \in MetarPlaceholders)
        => /\ decoded_metar = metar
           /\ ~metarParsed
           /\ decoded_metar # DecodeErrorMsg

\* C2: no exception leaves get_weather_brief and the process never exits
\* with a status other than 0, whatever the fetches, the decode and the
\* POST do.
C2_AlwaysExitsZero ==
    /\ exception = "none"
    /\ pc = "exited" => exitStatus = 0

\* The failure shape of a TAF response, for a code that passed validation.
TafShape(resp) ==
    IF ~NotErrorStatus(resp) THEN "request"
    ELSE IF Blank(resp.text) THEN "empty"
    ELSE IF ~ET_fromstring(resp.text).ok THEN "malformed"
    ELSE IF ET_fromstring(resp.text).found = <<>> THEN "no nodes"
    ELSE "data"

TafFailureShapes == {"empty", "malformed", "no nodes"}

\* C3 as stated: the placeholder get_taf returned for one failure shape
\* (empty body, unparsable body, no TAF/text node) differs from what it
\* returns for each of the other two shapes.
C3_PairwiseDistinct ==
    (Done("get_taf") /\ is_valid_icao(icao)
        /\ TafShape(tafResp) \in TafFailureShapes)
        => \A r \in TafResponses :
             (TafShape(r) \in TafFailureShapes
                /\ TafShape(r) # TafShape(tafResp))
                => get_taf(icao, r).ret # taf

\* C3 amended: the empty-body placeholder differs from the one returned for
\* an unparsable body and for a body without TAF/text nodes; those two
\* shapes return the same text, "TAF data not available.".
C3_TwoPlaceholders ==
    (Done("get_taf") /\ is_valid_icao(icao)
        /\ TafShape(tafResp) \in TafFailureShapes)
        => /\ taf \in {TafEmptyMsg, TafUnavailableMsg}
           /\ TafShape(tafResp) = "empty" <=> taf # TafUnavailableMsg
           /\ \A r \in TafResponses :
                TafShape(r) \in {"malformed", "no nodes"}
                    => get_taf(icao, r).ret = TafUnavailableMsg

C3_Witness ==
    /\ Done("get_taf")
    /\ is_valid_icao(icao)
    /\ TafShape(tafResp) = "empty"
    /\ taf = TafEmptyMsg

\* C4: the validator accepts a string exactly when it is four characters
\* long and every character is one of A-Z.
C4_ValidIffFourUpper ==
    Done("get_metar") => ((metar # InvalidIcaoMsg) <=> FourUpper(icao))

\* C5: with an invalid code no GET is issued and both fetchers return
\* "Invalid ICAO code.".
C5_InvalidCodeNoGet ==
    ~FourUpper(icao)
        => /\ gets = <<>>
           /\ Done("get_metar") => metar = InvalidIcaoMsg
           /\ (Done("get_taf") /\ exception = "none")
                => taf = InvalidIcaoMsg

\* C6 as stated: without a webhook URL no POST and one error record; with
\* one, one POST and one record, info on a 2xx answer and error on a
\* transport failure or any non-2xx status.
C6_NotifierAsStated ==
    Done("send_to_slack")
        => IF SLACK_WEBHOOK_URL.isNone \/ SLACK_WEBHOOK_URL.value = <<>>
           THEN posts = <<>> /\ LevelsBy("send_to_slack") = <<"ERROR">>
           ELSE /\ Len(posts) = 1
                /\ exception = "none"
                /\ LevelsBy("send_to_slack") =
                     IF Is2xx(postResp) THEN <<"INFO">> ELSE <<"ERROR">>

\* C6 amended: as C6, with the error record on a transport failure or a 4xx
\* or 5xx status and the info record on every other answer.
C6_Notifier ==
    Done("send_to_slack")
        => IF SLACK_WEBHOOK_URL.isNone \/ SLACK_WEBHOOK_URL.value = <<>>
           THEN posts = <<>> /\ LevelsBy("send_to_slack") = <<"ERROR">>
           ELSE /\ Len(posts) = 1
                /\ exception = "none"
                /\ LevelsBy("send_to_slack") =
                     IF NotErrorStatus(postResp) THEN <<"INFO">>
                     ELSE <<"ERROR">>

C6_Witness ==
    /\ Done("send_to_slack")
    /\ SLACK_WEBHOOK_URL.value = HookUrl
    /\ postResp.exc = "Timeout"
    /\ Len(posts) = 1

\* C7 as stated: for a code that passed validation get_metar returns the
\* trimmed body of a 2xx answer, the empty-response text for a blank 2xx
\* body with no error logged, and the network-error text with one error
\* record for a transport failure or any non-2xx status; never "".
C7_MetarAsStated ==
    (Done("get_metar") /\ is_valid_icao(icao))
        => /\ metar # <<>>
           /\ stages = <<"get_metar">> => (exception = "none" /\ pc # "raised")
           /\ IF Is2xx(metarResp)
              THEN /\ LevelsBy("get_metar") = <<>>
                   /\ IF Blank(metarResp.text) THEN metar = MetarEmptyMsg
                      ELSE IsTrimOf(metar, metarResp.text)
              ELSE /\ metar = MetarNetworkMsg
                   /\ LevelsBy("get_metar") = <<"ERROR">>

\* C7 amended: as C7, with the body returned for every answer whose status
\* is not 4xx or 5xx, and the network-error text for a transport failure
\* or a 4xx or 5xx status.
C7_Metar ==
    (Done("get_metar") /\ is_valid_icao(icao))
        => /\ metar # <<>>
           /\ stages = <<"get_metar">> => (exception = "none" /\ pc # "raised")
           /\ IF NotErrorStatus(metarResp)
              THEN /\ LevelsBy("get_metar") = <<>>
                   /\ IF Blank(metarResp.text) THEN metar = MetarEmptyMsg
                      ELSE IsTrimOf(metar, metarResp.text)
              ELSE /\ metar = MetarNetworkMsg
                   /\ LevelsBy("get_metar") = <<"ERROR">>

C7_Witness ==
    /\ Done("get_metar")
    /\ metarResp.exc = "none"
    /\ metarResp.status = 200
    /\ metarResp.text = PaddedMetar
    /\ metar = RawMetar

\* C8: for a code that passed validation, a 2xx answer whose non-blank body
\* is not well-formed XML, and a GET that fails, each make get_taf return a
\* TAF placeholder and log exactly one error, with no exception raised.
C8_TafParseFailureAbsorbed ==
    (Done("get_taf") /\ is_valid_icao(icao)
        /\ \/ tafResp.exc \in TransportErrors
           \/ tafResp.exc = "none" /\ tafResp.status >= 400
           \/ /\ Is2xx(tafResp)
              /\ ~Blank(tafResp.text)
              /\ ~ET_fromstring(tafResp.text).ok)
        => /\ taf \in {TafUnavailableMsg, TafEmptyMsg}
           /\ LevelsBy("get_taf") = <<"ERROR">>
           /\ exception = "none"
           /\ pc # "raised"

C8_Witness ==
    /\ Done("get_taf")
    /\ Is2xx(tafResp)
    /\ tafResp.text = XmlMalformed
    /\ taf = TafUnavailableMsg
    /\ LevelsBy("get_taf") = <<"ERROR">>

\* C9: the calls happen in the order METAR fetch, TAF fetch, decode, print,
\* notify, each at most once; at most two GETs, METAR first, and at most one
\* POST, after both fetches; a placeholder from the METAR fetch leaves the
\* later stages in place: the TAF fetch follows it, a run that returns has
\* made all five calls, and the only exception that cuts a run short comes
\* out of the TAF fetch.
C9_StageOrder ==
    /\ IsPrefix(stages, <<"get_metar", "get_taf", "decode_metar", "print",
                          "send_to_slack">>)
    /\ IsPrefix(gets, <<"metar", "taf">>)
    /\ Len(posts) <= 1
    /\ posts # <<>> => (Done("get_metar") /\ Done("get_taf")
                          /\ Done("print"))
    /\ (Done("get_metar") /\ pc # "get_taf") => Done("get_taf")
    /\ (pc = "exited" /\ exitStatus = 0) => Len(stages) = 5
    /\ exception # "none" =>
          /\ stages = <<"get_metar", "get_taf">>
          /\ TafShape(tafResp) = "data"

C9_Witness ==
    /\ pc = "exited"
    /\ exitStatus = 0
    /\ metar = MetarNetworkMsg
    /\ gets = <<"metar", "taf">>
    /\ Len(posts) = 1
    /\ Len(stages) = 5

\* C10: for an invalid code and a configured webhook, a run that returns
\* has made exactly one POST whose METAR, TAF and Decoded METAR fields are all
\* "Invalid ICAO code." under a header showing the upper-cased code.
C10_InvalidCodeStillNotifies ==
    (~FourUpper(icao) /\ pc = "exited" /\ exitStatus = 0
        /\ ~SLACK_WEBHOOK_URL.isNone /\ SLACK_WEBHOOK_URL.value # <<>>)
        => /\ Len(posts) = 1
           /\ posts[1].pretext = BriefHeader \o upper(icao)
           /\ \A i \in 1..3 : posts[1].fields[i].value = InvalidIcaoMsg
====
